---- MODULE Spec2Model ----
(***************************************************************************)
(* A model of the Twitter sentiment dashboard: the text normaliser         *)
(* (src/src/preprocess.py), the dataset pipeline and its SQLite store      *)
(* (src/src/process_dataset.py), the dashboard's read query                *)
(* (src/src/app.py) and the phase ordering of main (src/main.py).          *)
(*                                                                         *)
(* Texts are sequences of one-character strings.  Three specifications     *)
(* share the variables:                                                    *)
(*   Spec       a run of main (pipeline, then dashboard), repeated;        *)
(*   PreSpec    preprocess_tweet applied to bounded raw texts;             *)
(*   FetchSpec  fetch_sqlite_data applied to bounded store contents.       *)
(***************************************************************************)
EXTENDS Integers, Sequences, FiniteSets, TLC

VARIABLES
    pc,            \* position of the running process in main / process_dataset
    pdStatus,      \* the call process_dataset(...): notcalled, running, returned, raised
    dashStatus,    \* create_dashboard(...): notstarted, serving, raised
    df,            \* the sampled rows, as iterrows yields them
    idx,           \* index of the row the for loop is at
    cleaned_text,  \* local of the loop body (dead at the loop head: cleared there)
    result,        \* local of the loop body: the classifier's answer (cleared likewise)
    tweets_data,   \* the list process_dataset returns
    tableExists,   \* the database file holds the table tweets
    db,            \* committed rows of the table tweets
    conn,          \* the pipeline's connection: "closed", or the rows it sees (its open transaction included)
    now,           \* the clock, int(time.time())
    table_data,    \* what the last fetch_sqlite_data returned (or FetchError)
    sampled,       \* rows sampled so far, by all the processes together
    hist,          \* history of the process: counts of skipped rows and store failures, whether it read
    lastUpsert,    \* history: per TweetID the row of the latest committed upsert
    raw,           \* PreSpec: the raw text
    once,          \* PreSpec: preprocess_tweet(raw)
    twice,         \* PreSpec: preprocess_tweet(preprocess_tweet(raw))
    fq             \* FetchSpec: the arguments of the call (NoCall before it)

vars == <<pc, pdStatus, dashStatus, df, idx, cleaned_text, result, tweets_data,
          tableExists, db, conn, now, table_data, sampled, hist,
          lastUpsert, raw, once, twice, fq>>

mainVars == <<pc, pdStatus, dashStatus, df, idx, cleaned_text, result, tweets_data,
              conn, now, sampled, hist, lastUpsert>>
storeVars == <<tableExists, db>>
preVars == <<raw, once, twice>>

\* ------------------------------------------------------------------
\* Bounds of the model
\* ------------------------------------------------------------------

\* longest raw text PreSpec draws
MaxLen == 5
\* most rows the samples of all the processes hold together
MaxRows == 2
\* the clock stops advancing here
MaxClock == 1
\* most rows in a store FetchSpec draws
MaxStoreRows == 2
\* largest limit FetchSpec passes
MaxLimit == 2

\* ------------------------------------------------------------------
\* Characters (Python's re: \w, \s, str.lower)
\* ------------------------------------------------------------------

LowerSeq == <<"a","b","c","d","e","f","g","h","i","j","k","l","m",
              "n","o","p","q","r","s","t","u","v","w","x","y","z">>
UpperSeq == <<"A","B","C","D","E","F","G","H","I","J","K","L","M",
              "N","O","P","Q","R","S","T","U","V","W","X","Y","Z">>
Digits == {"0","1","2","3","4","5","6","7","8","9"}
Range(f) == {f[x] : x \in DOMAIN f}

\* \s
IsSpace(c) == c \in {" ", "\t", "\n", "\r"}
\* \w
IsWord(c) == c \in Range(LowerSeq) \cup Range(UpperSeq) \cup Digits \cup {"_"}
\* str.lower on one character
ToLower(c) ==
    IF \E k \in DOMAIN UpperSeq : UpperSeq[k] = c
    THEN LowerSeq[CHOOSE k \in DOMAIN UpperSeq : UpperSeq[k] = c]
    ELSE c

\* s[i..] starts with p
HasPrefixAt(s, i, p) ==
    /\ i + Len(p) - 1 <= Len(s)
    /\ \A k \in 1..Len(p) : s[i + k - 1] = p[k]

\* the character classes the patterns use: "S" is \S, "w" is \w, "s" is \s
InClass(c, cls) ==
    CASE cls = "S" -> ~IsSpace(c)
      [] cls = "w" -> IsWord(c)
      [] cls = "s" -> IsSpace(c)

\* last index of the run of characters of class cls that starts at i (i - 1 when empty)
RECURSIVE RunEnd(_, _, _)
RunEnd(s, i, cls) ==
    IF i <= Len(s) /\ InClass(s[i], cls) THEN RunEnd(s, i + 1, cls) ELSE i - 1

\* ------------------------------------------------------------------
\* preprocess_tweet, step by step
\* ------------------------------------------------------------------

\* where a match of  WORD\S+  starting at i ends (0: no match)
PrefixMatchEnd(s, i, word) ==
    IF HasPrefixAt(s, i, word) /\ RunEnd(s, i + Len(word), "S") >= i + Len(word)
    THEN RunEnd(s, i + Len(word), "S")
    ELSE 0

\* where a match of  http\S+|www\S+|https\S+  starting at i ends (0: no match);
\* the alternatives are tried in the pattern's order
URLMatchEnd(s, i) ==
    IF PrefixMatchEnd(s, i, <<"h","t","t","p">>) > 0
    THEN PrefixMatchEnd(s, i, <<"h","t","t","p">>)
    ELSE IF PrefixMatchEnd(s, i, <<"w","w","w">>) > 0
    THEN PrefixMatchEnd(s, i, <<"w","w","w">>)
    ELSE PrefixMatchEnd(s, i, <<"h","t","t","p","s">>)

\* where a match of  @\w+|#\w+  starting at i ends (0: no match)
MentionMatchEnd(s, i) ==
    IF i <= Len(s) /\ s[i] \in {"@", "#"} /\ RunEnd(s, i + 1, "w") >= i + 1
    THEN RunEnd(s, i + 1, "w")
    ELSE 0

\* re.sub(pattern, '', s): leftmost matches, left to right, non-overlapping
MatchEnd(s, i, pat) ==
    IF pat = "url" THEN URLMatchEnd(s, i) ELSE MentionMatchEnd(s, i)

RECURSIVE SubFrom(_, _, _)
SubFrom(s, i, pat) ==
    IF i > Len(s) THEN <<>>
    ELSE IF MatchEnd(s, i, pat) > 0 THEN SubFrom(s, MatchEnd(s, i, pat) + 1, pat)
    ELSE <<s[i]>> \o SubFrom(s, i + 1, pat)

RemoveURLs(s) == SubFrom(s, 1, "url")
RemoveMentions(s) == SubFrom(s, 1, "mention")
\* re.sub(r'[^\w\s]', '', s)
RemoveSpecial(s) == SelectSeq(s, LAMBDA c : IsWord(c) \/ IsSpace(c))
LowerText(s) == [k \in 1..Len(s) |-> ToLower(s[k])]

\* word_tokenize on a text of word characters and whitespace: its maximal
\* runs of non-space characters
RECURSIVE Tokens(_, _)
Tokens(s, i) ==
    IF i > Len(s) THEN <<>>
    ELSE IF IsSpace(s[i]) THEN Tokens(s, i + 1)
    ELSE <<SubSeq(s, i, RunEnd(s, i, "S"))>> \o Tokens(s, RunEnd(s, i, "S") + 1)

\* WordNetLemmatizer.lemmatize, a per-token map of the NLTK library; the
\* properties stated of preprocess_tweet take it as the identity
Lemmatize(token) == token

\* ' '.join(tokens)
RECURSIVE JoinSpace(_)
JoinSpace(toks) ==
    IF Len(toks) = 0 THEN <<>>
    ELSE IF Len(toks) = 1 THEN toks[1]
    ELSE toks[1] \o <<" ">> \o JoinSpace(Tail(toks))

LemmatizeText(s) ==
    JoinSpace([k \in 1..Len(Tokens(s, 1)) |-> Lemmatize(Tokens(s, 1)[k])])

\* re.sub(r'\s+', ' ', s)
RECURSIVE CollapseFrom(_, _)
CollapseFrom(s, i) ==
    IF i > Len(s) THEN <<>>
    ELSE IF IsSpace(s[i]) THEN <<" ">> \o CollapseFrom(s, RunEnd(s, i, "s") + 1)
    ELSE <<s[i]>> \o CollapseFrom(s, i + 1)

\* str.strip()
RECURSIVE LStrip(_)
LStrip(s) == IF Len(s) > 0 /\ IsSpace(s[1]) THEN LStrip(Tail(s)) ELSE s
RECURSIVE RStrip(_)
RStrip(s) ==
    IF Len(s) > 0 /\ IsSpace(s[Len(s)]) THEN RStrip(SubSeq(s, 1, Len(s) - 1)) ELSE s
Strip(s) == RStrip(LStrip(s))

\* a value that is not a str (pandas reads an empty text field as float NaN)
NaN == <<"NaN">>
\* what preprocess_tweet gives when re.sub raises TypeError
Raised == <<"Raised">>

preprocess_tweet(tweet_text) ==
    IF tweet_text = NaN THEN Raised
    ELSE Strip(CollapseFrom(LemmatizeText(LowerText(RemoveSpecial(
             RemoveMentions(RemoveURLs(tweet_text))))), 1))

\* ------------------------------------------------------------------
\* The table tweets (TweetID TEXT PRIMARY KEY, Text, Sentiment, Score, Timestamp)
\* ------------------------------------------------------------------

RowsOf(tbl, id) == {r \in tbl : r.TweetID = id}

\* INSERT OR IGNORE: an existing row of the key is kept
InsertOrIgnore(tbl, rec) ==
    IF RowsOf(tbl, rec.TweetID) = {} THEN tbl \cup {rec} ELSE tbl

\* INSERT OR REPLACE INTO tweets ... : the row of the same primary key, if
\* any, is deleted and the new row inserted
InsertOrReplace(tbl, rec) ==
    (tbl \ RowsOf(tbl, rec.TweetID)) \cup {rec}

\* str(row['id']) for the identifiers the model draws
DecimalSeq == <<"0","1","2","3","4","5","6","7","8","9">>
IdStr(n) == DecimalSeq[n + 1]

\* result['label'].replace('LABEL_0', 'NEGATIVE').replace('LABEL_1', 'NEUTRAL')
\*                .replace('LABEL_2', 'POSITIVE')
MapLabel(label) ==
    CASE label = "LABEL_0" -> "NEGATIVE"
      [] label = "LABEL_1" -> "NEUTRAL"
      [] label = "LABEL_2" -> "POSITIVE"
      [] OTHER -> label

\* the five values of one row, as the INSERT and the append both build them
Record(row, text, res, t) ==
    [TweetID |-> IdStr(row.id), Text |-> text, Sentiment |-> MapLabel(res.label),
     Score |-> res.score, Timestamp |-> t]

\* ------------------------------------------------------------------
\* Inputs the model draws
\* ------------------------------------------------------------------

SourceIds == {1, 2}
SourceTexts == {NaN, <<"@", "a">>, <<"A", "!">>, <<"b">>}
\* the rows of the source the samples are drawn from; identifier 2 occurs with
\* every kind of text, identifier 1 with two texts that clean to different words
SourceRows == {row \in [id : SourceIds, text : SourceTexts] :
                 row.id = 1 => row.text \in {<<"A", "!">>, <<"b">>}}
RECURSIVE SeqsUpTo(_, _)
SeqsUpTo(S, n) ==
    IF n = 0 THEN {<<>>}
    ELSE SeqsUpTo(S, n - 1) \cup {Append(q, x) : q \in {r \in SeqsUpTo(S, n - 1) : Len(r) = n - 1}, x \in S}
\* the samples df.sample(...) may give: identifiers may repeat
Samples == SeqsUpTo(SourceRows, MaxRows)
\* what the classifier may answer (score in tenths)
ClassifierOutputs == {[label |-> "LABEL_0", score |-> 5], [label |-> "LABEL_2", score |-> 9]}
TweetIDs == {IdStr(n) : n \in SourceIds}

NoRow == [none |-> TRUE]
NoResult == [label |-> "", score |-> 0]
Unset == <<"Unset">>
NoCall == [called |-> FALSE]
NoData == [ok |-> TRUE, rows |-> <<>>, fetched |-> FALSE]
ClosedConn == [open |-> FALSE, rows |-> {}]
NoPending == [id \in TweetIDs |-> NoRow]
NoHist == [empty |-> 0, preErr |-> 0, clsErr |-> 0, storeErr |-> 0, initErr |-> 0,
           reads |-> 0, pending |-> NoPending]

\* ------------------------------------------------------------------
\* fetch_sqlite_data
\* ------------------------------------------------------------------

\* SQLite's LIKE: % matches any run of characters, _ any one character, and
\* ASCII letters match without regard to case
RECURSIVE LikeFrom(_, _, _, _)
LikeFrom(p, i, t, j) ==
    IF i > Len(p) THEN j > Len(t)
    ELSE IF p[i] = "%" THEN \E k \in j..(Len(t) + 1) : LikeFrom(p, i + 1, t, k)
    ELSE IF j > Len(t) THEN FALSE
    ELSE IF p[i] = "_" THEN LikeFrom(p, i + 1, t, j + 1)
    ELSE ToLower(p[i]) = ToLower(t[j]) /\ LikeFrom(p, i + 1, t, j + 1)
Like(t, p) == LikeFrom(p, 1, t, 1)

\* None, as an argument that is a str elsewhere
NoneStr == "None"
NoneText == <<"None">>
\* Python's truth of an optional str: neither None nor empty
Truthy(sentiment_filter) == sentiment_filter \notin {NoneStr, ""}
TruthyText(keyword) == keyword \notin {NoneText, <<>>}

\* the WHERE clause the function builds
WhereHolds(r, sentiment_filter, keyword) ==
    /\ Truthy(sentiment_filter) => r.Sentiment = sentiment_filter
    /\ TruthyText(keyword) => Like(r.Text, <<"%">> \o keyword \o <<"%">>)

\* ORDER BY Timestamp DESC: every arrangement of the rows with non-increasing
\* Timestamp (SQL leaves the order of equal Timestamps open)
OrderedByTimestampDesc(S) ==
    {q \in [1..Cardinality(S) -> S] :
        /\ \A a, b \in 1..Cardinality(S) : a # b => q[a] # q[b]
        /\ \A a, b \in 1..Cardinality(S) : a < b => q[a].Timestamp >= q[b].Timestamp}

\* LIMIT n (a negative n is no limit in SQLite)
LimitRows(q, limit) ==
    IF limit < 0 \/ limit >= Len(q) THEN q ELSE SubSeq(q, 1, limit)

\* pandas raises DatabaseError (no such table: tweets); the function logs and re-raises
FetchError == [ok |-> FALSE, rows |-> <<>>, fetched |-> TRUE]

\* the outcomes of fetch_sqlite_data on a database file
fetch_sqlite_data(exists, tbl, limit, sentiment_filter, keyword) ==
    IF ~exists THEN {FetchError}
    ELSE {[ok |-> TRUE, rows |-> LimitRows(q, limit), fetched |-> TRUE] :
            q \in OrderedByTimestampDesc(
                    {r \in tbl : WhereHolds(r, sentiment_filter, keyword)})}

\* the default of the parameter limit
DefaultLimit == 1000

\* ------------------------------------------------------------------
\* Spec: main, process_dataset, create_dashboard
\* ------------------------------------------------------------------

\* a fresh process: nothing called yet
ProcessStart ==
    /\ pc = "start"
    /\ pdStatus = "notcalled"
    /\ dashStatus = "notstarted"
    /\ df = <<>>
    /\ idx = 1
    /\ cleaned_text = <<>>
    /\ result = NoResult
    /\ tweets_data = <<>>
    /\ conn = ClosedConn
    /\ table_data = NoData
    /\ hist = NoHist

Init ==
    /\ ProcessStart
    /\ sampled = 0
    /\ tableExists = FALSE
    /\ db = {}
    /\ now = 0
    /\ lastUpsert = NoPending
    /\ raw = Unset
    /\ once = Unset
    /\ twice = Unset
    /\ fq = NoCall

\* main: the call of process_dataset
MainStart ==
    /\ pc = "start"
    /\ pc' = "load"
    /\ pdStatus' = "running"
    /\ UNCHANGED <<dashStatus, df, idx, cleaned_text, result, tweets_data, conn, now,
                   sampled, hist, lastUpsert, storeVars, table_data, preVars, fq>>

\* process_dataset's outer handler: log and re-raise
PdRaise ==
    /\ pdStatus' = "raised"
    /\ pc' = "main_except"

\* read_csv, sample, and the construction of the classifier succeed
LoadDataset ==
    /\ pc = "load"
    /\ \E sample \in Samples :
         /\ sampled + Len(sample) <= MaxRows
         /\ df' = sample
         /\ sampled' = sampled + Len(sample)
    /\ pc' = "initdb"
    /\ UNCHANGED <<pdStatus, dashStatus, idx, cleaned_text, result, tweets_data, conn,
                   now, hist, lastUpsert, storeVars, table_data, preVars, fq>>

\* read_csv or the construction of the classifier raises
LoadFails ==
    /\ pc = "load"
    /\ PdRaise
    /\ UNCHANGED <<dashStatus, df, idx, cleaned_text, result, tweets_data, conn, now,
                   sampled, hist, lastUpsert, storeVars, table_data, preVars, fq>>

\* initialize_sqlite: connect, CREATE TABLE IF NOT EXISTS, commit; then the
\* loop starts with an empty tweets_data
InitializeSqlite ==
    /\ pc = "initdb"
    /\ tableExists' = TRUE
    /\ conn' = [open |-> TRUE, rows |-> db]
    /\ tweets_data' = <<>>
    /\ idx' = 1
    /\ pc' = "row"
    /\ UNCHANGED <<pdStatus, dashStatus, df, cleaned_text, result, now, sampled, hist,
                   lastUpsert, db, table_data, preVars, fq>>

\* initialize_sqlite raises: logged and re-raised twice, out of process_dataset
InitializeSqliteFails ==
    /\ pc = "initdb"
    /\ hist' = [hist EXCEPT !.initErr = @ + 1]
    /\ PdRaise
    /\ UNCHANGED <<dashStatus, df, idx, cleaned_text, result, tweets_data, conn, now,
                   sampled, lastUpsert, storeVars, table_data, preVars, fq>>

\* a variant of the loop's handler that lets the exception leave the loop
RowExceptAbort(kind) ==
    /\ hist' = [hist EXCEPT ![kind] = @ + 1]
    /\ PdRaise
    /\ UNCHANGED <<idx, cleaned_text, result>>

\* the loop's handler, except Exception: log, continue
RowExcept(kind) ==
    /\ hist' = [hist EXCEPT ![kind] = @ + 1]
    /\ idx' = idx + 1
    /\ cleaned_text' = <<>>
    /\ result' = NoResult
    /\ pc' = "row"
    /\ UNCHANGED pdStatus

\* a variant of the test that takes no text as empty
NeverEmpty(text) == FALSE

\* if not cleaned_text
IsEmptyText(text) == text = <<>>

\* preprocess_tweet(row['text']) raises
PreprocessRaises ==
    /\ pc = "row"
    /\ idx <= Len(df)
    /\ preprocess_tweet(df[idx].text) = Raised
    /\ RowExcept("preErr")
    /\ UNCHANGED <<dashStatus, df, tweets_data, conn, now, sampled,
                   lastUpsert, storeVars, table_data, preVars, fq>>

\* the cleaned text is empty: continue
SkipEmpty ==
    /\ pc = "row"
    /\ idx <= Len(df)
    /\ preprocess_tweet(df[idx].text) # Raised
    /\ IsEmptyText(preprocess_tweet(df[idx].text))
    /\ hist' = [hist EXCEPT !.empty = @ + 1]
    /\ idx' = idx + 1
    /\ pc' = "row"
    /\ UNCHANGED <<pdStatus, dashStatus, df, cleaned_text, result, tweets_data, conn, now, sampled,
                   lastUpsert, storeVars, table_data, preVars, fq>>

\* the cleaned text is not empty: on to the classifier
PreprocessRow ==
    /\ pc = "row"
    /\ idx <= Len(df)
    /\ preprocess_tweet(df[idx].text) # Raised
    /\ ~IsEmptyText(preprocess_tweet(df[idx].text))
    /\ cleaned_text' = preprocess_tweet(df[idx].text)
    /\ pc' = "classify"
    /\ UNCHANGED <<pdStatus, dashStatus, df, idx, result, tweets_data, conn, now, sampled,
                   hist, lastUpsert, storeVars, table_data, preVars, fq>>

\* nlp(cleaned_text)[0]
Classify ==
    /\ pc = "classify"
    /\ \E out \in ClassifierOutputs : result' = out
    /\ pc' = "execute"
    /\ UNCHANGED <<pdStatus, dashStatus, df, idx, cleaned_text, tweets_data, conn, now,
                   sampled, hist, lastUpsert, storeVars, table_data, preVars, fq>>

\* the classifier raises
ClassifyFails ==
    /\ pc = "classify"
    /\ RowExcept("clsErr")
    /\ UNCHANGED <<dashStatus, df, tweets_data, conn, now, sampled,
                   lastUpsert, storeVars, table_data, preVars, fq>>

\* cursor.execute(INSERT OR REPLACE ...), with int(time.time()) read here
ExecuteUpsert ==
    /\ pc = "execute"
    /\ conn' = [conn EXCEPT !.rows =
                    InsertOrReplace(@, Record(df[idx], cleaned_text, result, now))]
    /\ hist' = [hist EXCEPT !.pending[IdStr(df[idx].id)] =
                    Record(df[idx], cleaned_text, result, now)]
    /\ pc' = "commit"
    /\ UNCHANGED <<pdStatus, dashStatus, df, idx, cleaned_text, result, tweets_data,
                   now, sampled, lastUpsert, storeVars, table_data, preVars, fq>>

\* cursor.execute raises (sqlite3.Error): the statement changes nothing
ExecuteFails ==
    /\ pc = "execute"
    /\ RowExcept("storeErr")
    /\ UNCHANGED <<dashStatus, df, tweets_data, conn, now, sampled,
                   lastUpsert, storeVars, table_data, preVars, fq>>

\* conn.commit(): what the connection sees becomes the committed table
Commit ==
    /\ pc = "commit"
    /\ db' = conn.rows
    /\ lastUpsert' = [id \in TweetIDs |->
                        IF hist.pending[id] # NoRow THEN hist.pending[id]
                        ELSE lastUpsert[id]]
    /\ hist' = [hist EXCEPT !.pending = NoPending]
    /\ pc' = "append"
    /\ UNCHANGED <<pdStatus, dashStatus, df, idx, cleaned_text, result, tweets_data,
                   conn, now, sampled, tableExists, table_data, preVars, fq>>

\* conn.commit() raises: the transaction stays open on the connection
CommitFails ==
    /\ pc = "commit"
    /\ RowExcept("storeErr")
    /\ UNCHANGED <<dashStatus, df, tweets_data, conn, now, sampled,
                   lastUpsert, storeVars, table_data, preVars, fq>>

\* tweets_data.append({...}), with int(time.time()) read again
AppendRecord ==
    /\ pc = "append"
    /\ tweets_data' = Append(tweets_data, Record(df[idx], cleaned_text, result, now))
    /\ idx' = idx + 1
    /\ cleaned_text' = <<>>
    /\ result' = NoResult
    /\ pc' = "row"
    /\ UNCHANGED <<pdStatus, dashStatus, df, conn, now, sampled,
                   hist, lastUpsert, storeVars, table_data, preVars, fq>>

\* the loop is over: conn.close() (what was not committed is rolled back), return
CloseAndReturn ==
    /\ pc = "row"
    /\ idx > Len(df)
    /\ conn' = ClosedConn
    /\ hist' = [hist EXCEPT !.pending = NoPending]
    /\ pdStatus' = "returned"
    /\ pc' = "dashboard"
    /\ UNCHANGED <<dashStatus, df, idx, cleaned_text, result, tweets_data, now, sampled,
                   lastUpsert, storeVars, table_data, preVars, fq>>

\* a variant of main that launches the dashboard while the loop runs
CanLaunchDashboardEarly == pc \in {"dashboard", "row"}

\* main reaches create_dashboard: the statement after process_dataset's return
CanLaunchDashboard == pc = "dashboard"

\* create_dashboard: the app is built and app.run serves
CreateDashboard ==
    /\ CanLaunchDashboard
    /\ dashStatus' = "serving"
    /\ pc' = "serving"
    /\ UNCHANGED <<pdStatus, df, idx, cleaned_text, result, tweets_data, conn, now,
                   sampled, hist, lastUpsert, storeVars, table_data, preVars, fq>>

\* create_dashboard raises (logged, re-raised)
CreateDashboardFails ==
    /\ pc = "dashboard"
    /\ dashStatus' = "raised"
    /\ pc' = "main_except"
    /\ UNCHANGED <<pdStatus, df, idx, cleaned_text, result, tweets_data, conn, now,
                   sampled, hist, lastUpsert, storeVars, table_data, preVars, fq>>

\* the filters a user of the dashboard sets
DashSentiments == {"", "POSITIVE"}
DashKeywords == {NoneText, <<"a">>}

\* update_dashboard: a timer tick or a click; '' becomes None, then the query
UpdateDashboard ==
    /\ pc = "serving"
    /\ \E sf \in DashSentiments, kw \in DashKeywords :
         \E res \in fetch_sqlite_data(tableExists, db, DefaultLimit,
                                      IF Truthy(sf) THEN sf ELSE NoneStr, kw) :
            table_data' = res
    /\ hist' = [hist EXCEPT !.reads = 1]
    /\ UNCHANGED <<pc, pdStatus, dashStatus, df, idx, cleaned_text, result, tweets_data,
                   conn, now, sampled, lastUpsert, storeVars, preVars, fq>>

\* main's handler: log "Pipeline failed", raise
MainExcept ==
    /\ pc = "main_except"
    /\ pc' = "failed"
    /\ UNCHANGED <<pdStatus, dashStatus, df, idx, cleaned_text, result, tweets_data,
                   conn, now, sampled, hist, lastUpsert, storeVars, table_data, preVars, fq>>

\* a second passes
Tick ==
    /\ now < MaxClock
    /\ now' = now + 1
    /\ UNCHANGED <<pc, pdStatus, dashStatus, df, idx, cleaned_text, result, tweets_data,
                   conn, sampled, hist, lastUpsert, storeVars, table_data, preVars, fq>>

\* the process has ended (main raised, or the server was stopped) and main is
\* run again on the same database file
Restart ==
    /\ pc \in {"serving", "failed"}
    /\ pc' = "start"
    /\ pdStatus' = "notcalled"
    /\ dashStatus' = "notstarted"
    /\ df' = <<>>
    /\ idx' = 1
    /\ cleaned_text' = <<>>
    /\ result' = NoResult
    /\ tweets_data' = <<>>
    /\ conn' = ClosedConn
    /\ table_data' = NoData
    /\ hist' = NoHist
    /\ UNCHANGED <<now, sampled, lastUpsert, storeVars, preVars, fq>>

Next ==
    \/ MainStart \/ LoadDataset \/ LoadFails
    \/ InitializeSqlite \/ InitializeSqliteFails
    \/ PreprocessRaises \/ SkipEmpty \/ PreprocessRow
    \/ Classify \/ ClassifyFails
    \/ ExecuteUpsert \/ ExecuteFails
    \/ Commit \/ CommitFails
    \/ AppendRecord \/ CloseAndReturn
    \/ CreateDashboard \/ CreateDashboardFails \/ UpdateDashboard
    \/ MainExcept \/ Tick \/ Restart

Spec == Init /\ [][Next]_vars

\* ------------------------------------------------------------------
\* PreSpec: preprocess_tweet on bounded raw texts, applied once and again
\* ------------------------------------------------------------------

PreAlphabet == {"w", "A", ".", "@", " ", "a"}
RawTexts == SeqsUpTo(PreAlphabet, MaxLen) \cup {NaN}

PreInit ==
    /\ ProcessStart
    /\ sampled = 0
    /\ tableExists = FALSE
    /\ db = {}
    /\ now = 0
    /\ lastUpsert = NoPending
    /\ raw \in RawTexts
    /\ once = Unset
    /\ twice = Unset
    /\ fq = NoCall

\* preprocess_tweet(raw)
PreprocessOnce ==
    /\ once = Unset
    /\ once' = preprocess_tweet(raw)
    /\ UNCHANGED <<mainVars, storeVars, table_data, raw, twice, fq>>

\* preprocess_tweet applied to its own output
PreprocessAgain ==
    /\ once \notin {Unset, Raised}
    /\ twice = Unset
    /\ twice' = preprocess_tweet(once)
    /\ UNCHANGED <<mainVars, storeVars, table_data, raw, once, fq>>

PreNext == PreprocessOnce \/ PreprocessAgain

PreSpec == PreInit /\ [][PreNext]_vars

\* ------------------------------------------------------------------
\* FetchSpec: fetch_sqlite_data on bounded database files
\* ------------------------------------------------------------------

StoreIDs == {"1", "2", "3"}
StoreTexts == {<<"a", "b">>, <<"b">>}
StoreRowValues ==
    [Text : StoreTexts, Sentiment : {"POSITIVE", "NEGATIVE"}, Score : {9}, Timestamp : {1, 2}]
\* tables of at most MaxStoreRows rows, one row per TweetID at most (the primary key)
Stores ==
    {{[TweetID |-> id, Text |-> f[id].Text, Sentiment |-> f[id].Sentiment,
       Score |-> f[id].Score, Timestamp |-> f[id].Timestamp] : id \in ids} :
        ids \in {x \in SUBSET StoreIDs : Cardinality(x) <= MaxStoreRows},
        f \in [StoreIDs -> StoreRowValues]}

FetchSentiments == {NoneStr, "", "POSITIVE"}
FetchKeywords == {NoneText, <<>>, <<"b">>, <<"A">>, <<"_">>}
FetchLimits == 0..MaxLimit

\* a database file: fresh (no table yet), or holding the table with some rows
FetchInit ==
    /\ ProcessStart
    /\ sampled = 0
    /\ \/ tableExists = FALSE /\ db = {}
       \/ tableExists = TRUE /\ db \in Stores
    /\ now = 0
    /\ lastUpsert = NoPending
    /\ raw = Unset
    /\ once = Unset
    /\ twice = Unset
    /\ fq = NoCall

\* fetch_sqlite_data(db_path, limit, sentiment_filter, keyword)
FetchCall ==
    /\ fq = NoCall
    /\ \E sf \in FetchSentiments, kw \in FetchKeywords, lim \in FetchLimits :
         /\ fq' = [called |-> TRUE, sentiment_filter |-> sf, keyword |-> kw, limit |-> lim]
         /\ table_data' \in fetch_sqlite_data(tableExists, db, lim, sf, kw)
    /\ UNCHANGED <<mainVars, storeVars, preVars>>

FetchNext == FetchCall

FetchSpec == FetchInit /\ [][FetchNext]_vars

\* ------------------------------------------------------------------
\* Properties
\* ------------------------------------------------------------------

Min(a, b) == IF a <= b THEN a ELSE b

\* C1: the committed table holds at most one row per TweetID, and that row is
\* the row of the latest committed upsert of that TweetID (all five values);
\* the connection of a running pipeline sees at most one row per TweetID too.
UpsertKeepsOneLatestRow ==
    \A id \in TweetIDs :
        /\ RowsOf(db, id) = (IF lastUpsert[id] = NoRow THEN {} ELSE {lastUpsert[id]})
        /\ Cardinality(RowsOf(conn.rows, id)) <= 1

\* C1 witness: one run upserted the same TweetID twice with different Scores and
\* the table holds the one row with the later Score.
SameIdUpsertedTwice ==
    /\ pc = "row"
    /\ Len(tweets_data) = 2
    /\ tweets_data[1].TweetID = tweets_data[2].TweetID
    /\ tweets_data[1].Score # tweets_data[2].Score
    /\ Cardinality(RowsOf(db, tweets_data[2].TweetID)) = 1
    /\ \A r \in RowsOf(db, tweets_data[2].TweetID) : r.Score = tweets_data[2].Score

\* C2: no row of the table (committed, or written on the open connection) and
\* no record of the returned list has an empty Text, and the classifier and the
\* store are reached only with a non-empty cleaned text.
NoEmptyTextPersisted ==
    /\ \A r \in db \cup conn.rows : r.Text # <<>>
    /\ \A k \in 1..Len(tweets_data) : tweets_data[k].Text # <<>>
    /\ pc \in {"classify", "execute", "commit", "append"} => cleaned_text # <<>>

\* C2 witness: a run returned after skipping a row whose cleaned text was empty,
\* with no error logged, while another row of the sample was stored.
EmptyRowSkipped ==
    /\ pdStatus = "returned"
    /\ hist.empty = 1
    /\ hist.preErr + hist.clsErr + hist.storeErr = 0
    /\ Len(df) = 2
    /\ Len(tweets_data) = 1
    /\ Cardinality(db) = 1

\* C3 as stated: the returned list has (sampled rows) - (rows empty after
\* cleaning) - (rows whose classifier call raised) records.
ReturnedCountOnlyClassifierErrors ==
    pdStatus = "returned" =>
        Len(tweets_data) = Len(df) - hist.empty - hist.clsErr

\* C3 amended: a row in which any step raised (cleaning, classifier, execute or
\* commit) is skipped and the loop goes on: no such row makes process_dataset
\* raise, the loop visits every row, and at the loop head and at the return the
\* list has (rows visited) - (empty) - (rows in which a step raised) records.
ReturnedCountAllRowErrors ==
    /\ pdStatus = "raised" => hist.preErr + hist.clsErr + hist.storeErr = 0
    /\ pdStatus = "returned" => idx = Len(df) + 1
    /\ (pc = "row" \/ pdStatus = "returned") =>
          Len(tweets_data) =
             (idx - 1) - hist.empty - (hist.preErr + hist.clsErr + hist.storeErr)

\* C3 witness: the classifier raised on one row of a sample of two, the other
\* row was processed, and the run returned one record.
ClassifierErrorRowSkipped ==
    /\ pdStatus = "returned"
    /\ Len(df) = 2
    /\ hist.clsErr = 1
    /\ hist.empty + hist.preErr + hist.storeErr = 0
    /\ Len(tweets_data) = 1

\* C4: once a store operation of the pipeline has failed (schema initialisation,
\* or the execute or commit of a row), process_dataset has raised: it neither
\* goes on with later rows nor returns.
StoreFailureIsFatal ==
    (hist.initErr > 0 \/ hist.storeErr > 0) => pdStatus = "raised"

\* the keyword occurs in the text (letters compared as LIKE compares them)
Contains(text, keyword) ==
    \E i \in 1..(Len(text) - Len(keyword) + 1) :
        \A j \in 1..Len(keyword) : ToLower(text[i + j - 1]) = ToLower(keyword[j])

\* the rows the filters of a call select: an absent filter selects every row
Selected(tbl, q) ==
    {r \in tbl :
        /\ Truthy(q.sentiment_filter) => r.Sentiment = q.sentiment_filter
        /\ TruthyText(q.keyword) => Contains(r.Text, q.keyword)}

\* C5: on a database that holds the table, fetch_sqlite_data returns rows that
\* satisfy all present filters (Sentiment equal, Text containing the keyword),
\* each once, by non-increasing Timestamp, as many as there are up to limit,
\* and the rows left out by the limit are no newer than those returned.
FetchReturnsFilteredRows ==
    (fq # NoCall /\ tableExists) =>
        /\ table_data.ok
        /\ \A k \in 1..Len(table_data.rows) : table_data.rows[k] \in Selected(db, fq)
        /\ \A a, b \in 1..Len(table_data.rows) :
              /\ a # b => table_data.rows[a] # table_data.rows[b]
              /\ a < b => table_data.rows[a].Timestamp >= table_data.rows[b].Timestamp
        /\ Len(table_data.rows) = Min(fq.limit, Cardinality(Selected(db, fq)))
        /\ \A r \in Selected(db, fq) \ Range(table_data.rows) :
              \A k \in 1..Len(table_data.rows) : table_data.rows[k].Timestamp >= r.Timestamp

\* C6: fetch_sqlite_data on a store without rows returns the empty sequence and
\* no error, whatever the filters, also when the table was never created.
FetchOnEmptyStoreIsEmpty ==
    (fq # NoCall /\ db = {}) => (table_data.ok /\ table_data.rows = <<>>)

\* C7: the output of preprocess_tweet has no match of the URL pattern, no
\* @mention or #hashtag, and only word characters and whitespace.
OutputHasNoUrlMentionPunctuation ==
    once \notin {Unset, Raised} =>
        /\ \A i \in 1..Len(once) : URLMatchEnd(once, i) = 0
        /\ \A i \in 1..Len(once) : MentionMatchEnd(once, i) = 0
        /\ \A i \in 1..Len(once) : IsWord(once[i]) \/ IsSpace(once[i])

\* C8: preprocess_tweet is idempotent: applied to its own output it returns it.
PreprocessIsIdempotent ==
    twice # Unset => twice = once

\* C9: the dashboard is started, and the store read, only after process_dataset
\* has returned and closed its connection; if process_dataset raised, the
\* dashboard is not started and main is in its handler or has raised.
DashboardOnlyAfterPipeline ==
    /\ (dashStatus # "notstarted" \/ hist.reads > 0) =>
          (pdStatus = "returned" /\ ~conn.open)
    /\ pdStatus = "raised" =>
          (dashStatus = "notstarted" /\ hist.reads = 0 /\ pc \in {"main_except", "failed"})

\* C9 witness: the dashboard, started after a run that stored a row, has read it.
DashboardReadStoredRows ==
    /\ pc = "serving"
    /\ hist.reads > 0
    /\ table_data.ok
    /\ Len(table_data.rows) > 0
    /\ Len(tweets_data) > 0

\* C10: when the sampled rows have pairwise distinct identifiers, every record
\* of tweets_data equals, in all five values, the committed row of its TweetID.
ListedRecordsEqualCommittedRows ==
    (\A a, b \in 1..Len(df) : a # b => df[a].id # df[b].id) =>
        \A k \in 1..Len(tweets_data) : tweets_data[k] \in db

====
